---- MODULE Spec2Model ----
(***************************************************************************)
(* ChatWithRepo (src/app.py): a Streamlit script, create_app, that is run  *)
(* from top to bottom once per user interaction.  st.session_state         *)
(* (repoManager, messages, client, selected_model) and the widget values   *)
(* survive from one run to the next; the script's local variables do not.  *)
(* One user interaction triggers one run.  A run is modelled as a sequence *)
(* of steps over the program counter pc; the streamed completion is        *)
(* consumed one increment per step.                                        *)
(*                                                                         *)
(* Texts are sequences of atoms, so that concatenation (+= on str) is \o.  *)
(* repo_service, llm_service and token_count are not part of src/: their   *)
(* operations are modelled from the specification's contracts (sections    *)
(* 4.1 to 4.5).  The widget framework is modelled by its documented        *)
(* behaviour: a widget keeps its value between runs as long as its options *)
(* are the same, a button is True only in the run its click triggers, and  *)
(* a multiselect whose default is not among its options raises.            *)
(***************************************************************************)
EXTENDS Integers, Sequences, FiniteSets, TLC

\* ------------------------------------------------------------- bounds
\* Longest history a new chat turn may start from is MaxHist - 2.
MaxHist == 3
\* Most increments one streamed completion yields.
MaxStream == 2

\* ------------------------------------------------------------- inputs
None == "None"
Absent == "absent"

Urls == {"u1", "u2"}
\* options of st.selectbox("Model", options=MODELS)
MODELS == {"m1", "m2"}
DefaultModel == "m1"
\* st.text_area("System Prompt", value=...)
DefaultSystemPrompt == <<"s0">>
SystemPrompts == {<<"s0">>, <<"s1">>}
\* what st.chat_input() can return (a non-empty string)
Prompts == {<<"p1">>, <<"p2">>}
\* chunk.choices[0].delta.content of one chunk
Increments == {<<"a">>, <<"b">>}
\* st.number_input("Limit", value=100000, step=10000): no min_value, so the
\* field also takes zero and negative numbers.  Sizes are scaled: the
\* default exceeds the size of every repository of the model.
DefaultLimit == 9
LimitValues == {-1, 0, 2, DefaultLimit}
\* default of st.multiselect("Select Files", ...)
DefaultFile == "README.md"
\* states of a working copy (what clone and pull can bring)
Versions == {0, 1}

\* The files of repository u with its working copy at version v, path-sorted.
RepoFiles(u, v) ==
    IF u = "u1"
    THEN IF v = 0
         THEN << [path |-> "README.md", folder |-> ".", lang |-> "md", content |-> <<"r", "r">>],
                 [path |-> "src/a.py", folder |-> "src", lang |-> "py", content |-> <<"x", "x", "x">>] >>
         ELSE << [path |-> "README.md", folder |-> ".", lang |-> "md", content |-> <<"r", "r", "r">>],
                 [path |-> "b.py", folder |-> ".", lang |-> "py", content |-> <<"y">>] >>
    ELSE IF v = 0
         THEN << [path |-> "main.js", folder |-> ".", lang |-> "js", content |-> <<"j">>] >>
         ELSE << [path |-> "README.md", folder |-> ".", lang |-> "md", content |-> <<"q">>],
                 [path |-> "main.js", folder |-> ".", lang |-> "js", content |-> <<"j">>] >>

\* ------------------------------------------------------ pure functions
Range(s) == {s[i] : i \in 1..Len(s)}

RECURSIVE Flatten(_)
\* the concatenation of a sequence of texts
Flatten(ss) == IF ss = <<>> THEN <<>> ELSE Head(ss) \o Flatten(Tail(ss))

\* repo.get_folders_options(), get_files_options(), get_languages_options()
FoldersOptions(files) == {f.folder : f \in Range(files)}
FilesOptions(files) == {f.path : f \in Range(files)}
LanguagesOptions(files) == {f.lang : f \in Range(files)}

FileSize(f) == Len(f.content)

\* section 4.1: AND across the dimensions, an empty dimension matches all
FileMatches(f, folders, paths, langs) ==
    /\ (folders = {} \/ f.folder \in folders)
    /\ (paths = {} \/ f.path \in paths)
    /\ (langs = {} \/ f.lang \in langs)

RECURSIVE TakeFiles(_, _, _, _, _, _)
\* section 4.1: matching files in order, whole, until the next one would
\* make the cumulative size exceed the limit; nothing after that one
TakeFiles(files, folders, paths, langs, limit, used) ==
    IF files = <<>> THEN <<>>
    ELSE LET f == Head(files) IN
         IF ~FileMatches(f, folders, paths, langs)
         THEN TakeFiles(Tail(files), folders, paths, langs, limit, used)
         ELSE IF used + FileSize(f) > limit
              THEN <<>>
              ELSE <<f>> \o TakeFiles(Tail(files), folders, paths, langs, limit,
                                      used + FileSize(f))

RECURSIVE SumSizes(_)
SumSizes(files) == IF files = <<>> THEN 0 ELSE FileSize(Head(files)) + SumSizes(Tail(files))

RECURSIVE RenderFiles(_)
\* each included file as a separator naming its path, then its content
RenderFiles(files) ==
    IF files = <<>> THEN <<>>
    ELSE <<Head(files).path>> \o Head(files).content \o RenderFiles(Tail(files))

\* repo.get_filtered_files(selected_folders=, selected_files=, selected_languages=, limit=)
GetFilteredFiles(files, args) ==
    RenderFiles(TakeFiles(files, args.folders, args.files, args.languages, args.limit, 0))

\* token_count.num_messages (section 4.2): the contents' sizes plus a fixed
\* overhead per message
RECURSIVE NumMessages(_)
NumMessages(msgs) ==
    IF msgs = <<>> THEN 0 ELSE 1 + Len(Head(msgs).content) + NumMessages(Tail(msgs))

\* the keyword arguments of repo.get_filtered_files at its two call sites
SelectionArgs_Swapped(sel) ==
    [folders |-> sel.files, files |-> sel.folders,
     languages |-> sel.languages, limit |-> sel.limit]
SelectionArgs(sel) ==
    [folders |-> sel.folders, files |-> sel.files,
     languages |-> sel.languages, limit |-> sel.limit]

\* st.session_state.messages.append({"role": role, "content": content})
AppendMessage_Front(msgs, role, content) ==
    <<[role |-> role, content |-> content]>> \o msgs
AppendMessage(msgs, role, content) ==
    Append(msgs, [role |-> role, content |-> content])

\* messages = [system] + [context] + st.session_state.messages
BuildMessages_NoContext(system_prompt, fstring, history) ==
    <<[role |-> "system", content |-> system_prompt]>> \o history
BuildMessages(system_prompt, fstring, history) ==
    <<[role |-> "system", content |-> system_prompt]>>
        \o <<[role |-> "user", content |-> fstring]>>
        \o history

\* StreamHandler.process_token: self.text += token
ProcessToken_Prepend(txt, token) == token \o txt
ProcessToken(txt, token) == txt \o token

\* st.multiselect(label, options=, default=): the stored value while the
\* options are the ones it was stored for, the default otherwise
Multiselect(w, options, default) == IF w.opts = options THEN w.val ELSE default

\* the message of the add branch
AddMessage_AlwaysSuccess(ok) == "add_ok"
AddMessage(ok) == IF ok THEN "add_ok" ELSE "add_err"

\* --------------------------------------------------------------- state
VARIABLES
    registry,      \* the URLs repoManager knows
    repoVer,       \* the version of each known repository's working copy
    messages,      \* st.session_state["messages"]
    client,        \* st.session_state["client"]: Absent, or the model it was created for
    sessModel,     \* st.session_state.selected_model: None, or a model
    appendCount,   \* appends to messages since the session started or the last Clear Chat
    wRepo,         \* selectbox "Repository URL": [opts, val]
    wFolders,      \* multiselect "Select Folder": [opts, val]
    wFiles,        \* multiselect "Select Files": [opts, val]
    wLangs,        \* multiselect "Filtered by Language": [opts, val]
    wLimit,        \* number_input "Limit"
    wModel,        \* selectbox "Model"
    wSys,          \* text_area "System Prompt"
    page,          \* the controls the last finished run drew: [folders, filters, llm, chat]
    pc,            \* position of the current run in create_app ("idle": no run)
    event,         \* what triggered the current run: [kind, url, prompt]
    repo_url,      \* local repo_url
    sidebarExists, \* outcome of check_if_repo_exists at line 52: <<>> before it
    selected,      \* locals selected_folder, selected_files, selected_languages, limit:
                   \* <<>> while unassigned, else <<[folders, files, languages, limit, url, ver]>>
    selCalls,      \* arguments of this run's calls of get_filtered_files, in order
    file_string,   \* local file_string
    call,          \* <<>>, or the client.chat call: <<[messages, model, clientFor, counted, total_tokens]>>
    consumed,      \* the increments the loop at line 179 has taken, in order
    text,          \* stream_handler.text
    displayed,     \* what container.markdown last showed
    shown,         \* the messages and panels this run has put on the page
    addCalls,      \* this run's calls of add_repo: [url, ok, before]
    runAppends,    \* appends to messages made by this run
    outcome        \* how the run ended ("" while it runs)

session == <<registry, repoVer, messages, client, sessModel, appendCount>>
widgets == <<wRepo, wFolders, wFiles, wLangs, wLimit, wModel, wSys>>
NoPage == [folders |-> FALSE, filters |-> FALSE, llm |-> FALSE, chat |-> FALSE]
locals == <<event, repo_url, sidebarExists, selected, selCalls, file_string, call,
            consumed, text, displayed, shown, addCalls, runAppends, outcome>>
vars == <<session, widgets, page, locals, pc>>

NoEvent == [kind |-> "load", url |-> None, prompt |-> <<>>]
NoWidget == [opts |-> {}, val |-> {}]

\* what a run starts from: every local unassigned, nothing on the page
ResetLocals(ev) ==
    /\ event' = ev
    /\ repo_url' = None
    /\ sidebarExists' = <<>>
    /\ selected' = <<>>
    /\ selCalls' = <<>>
    /\ file_string' = <<>>
    /\ call' = <<>>
    /\ consumed' = <<>>
    /\ text' = <<>>
    /\ displayed' = <<>>
    /\ shown' = {}
    /\ addCalls' = <<>>
    /\ runAppends' = 0
    /\ outcome' = ""

StartRun(ev) == pc' = "top" /\ ResetLocals(ev)

\* the script ends (its last line, st.stop(), or an exception the framework reports)
EndRun(how) == pc' = "end" /\ outcome' = how

\* RepoManager() at line 30 finds the repositories cloned earlier; the first
\* run is the page load.  selectbox "Model" starts at its first option.
Init ==
    /\ registry \in SUBSET Urls
    /\ repoVer \in [Urls -> Versions]
    /\ \A u \in Urls : u \notin registry => repoVer[u] = 0
    /\ messages = <<>>
    /\ client = Absent
    /\ sessModel = None
    /\ appendCount = 0
    /\ wRepo = [opts |-> {}, val |-> None]
    /\ wFolders = NoWidget
    /\ wFiles = NoWidget
    /\ wLangs = NoWidget
    /\ wLimit = DefaultLimit
    /\ wModel = DefaultModel
    /\ wSys = DefaultSystemPrompt
    /\ page = NoPage
    /\ pc = "top"
    /\ event = NoEvent
    /\ repo_url = None
    /\ sidebarExists = <<>>
    /\ selected = <<>>
    /\ selCalls = <<>>
    /\ file_string = <<>>
    /\ call = <<>>
    /\ consumed = <<>>
    /\ text = <<>>
    /\ displayed = <<>>
    /\ shown = {}
    /\ addCalls = <<>>
    /\ runAppends = 0
    /\ outcome = ""

\* ------------------------------------------------------- user actions
\* Each is one interaction with the page of the last run; it starts a run.
Click(kind) ==
    /\ pc = "idle"
    /\ StartRun([kind |-> kind, url |-> None, prompt |-> <<>>])
    /\ UNCHANGED <<session, widgets, page>>

\* text_input "Custom Repository URL", then button "Add Custom Repository"
ClickAdd(u) ==
    /\ pc = "idle"
    /\ StartRun([kind |-> "add", url |-> u, prompt |-> <<>>])
    /\ UNCHANGED <<session, widgets, page>>

ClickRefresh == Click("refresh")
\* the three buttons under the filters, drawn by lines 61-86
ClickCount == page.filters /\ Click("count")
ClickUpdate == page.filters /\ Click("update")
ClickDelete == page.filters /\ Click("delete")
\* the button under the LLM settings, line 99
ClickClear == page.llm /\ Click("clear")

\* st.chat_input() returns p in the run its submission triggers
SubmitPrompt(p) ==
    /\ pc = "idle"
    /\ page.chat
    /\ Len(messages) + 2 <= MaxHist
    /\ StartRun([kind |-> "prompt", url |-> None, prompt |-> p])
    /\ UNCHANGED <<session, widgets, page>>

SelectRepo(u) ==
    /\ pc = "idle"
    /\ u \in wRepo.opts
    /\ u # wRepo.val
    /\ wRepo' = [wRepo EXCEPT !.val = u]
    /\ StartRun(NoEvent)
    /\ UNCHANGED <<session, page, wFolders, wFiles, wLangs, wLimit, wModel, wSys>>

SelectModel(m) ==
    /\ pc = "idle"
    /\ page.llm
    /\ m # wModel
    /\ wModel' = m
    /\ StartRun(NoEvent)
    /\ UNCHANGED <<session, page, wRepo, wFolders, wFiles, wLangs, wLimit, wSys>>

EditSystemPrompt(s) ==
    /\ pc = "idle"
    /\ page.llm
    /\ s # wSys
    /\ wSys' = s
    /\ StartRun(NoEvent)
    /\ UNCHANGED <<session, page, wRepo, wFolders, wFiles, wLangs, wLimit, wModel>>

ChangeFolders(S) ==
    /\ pc = "idle"
    /\ page.folders
    /\ S \subseteq wFolders.opts
    /\ S # wFolders.val
    /\ wFolders' = [wFolders EXCEPT !.val = S]
    /\ StartRun(NoEvent)
    /\ UNCHANGED <<session, page, wRepo, wFiles, wLangs, wLimit, wModel, wSys>>

ChangeFiles(S) ==
    /\ pc = "idle"
    /\ page.filters
    /\ S \subseteq wFiles.opts
    /\ S # wFiles.val
    /\ wFiles' = [wFiles EXCEPT !.val = S]
    /\ StartRun(NoEvent)
    /\ UNCHANGED <<session, page, wRepo, wFolders, wLangs, wLimit, wModel, wSys>>

ChangeLanguages(S) ==
    /\ pc = "idle"
    /\ page.filters
    /\ S \subseteq wLangs.opts
    /\ S # wLangs.val
    /\ wLangs' = [wLangs EXCEPT !.val = S]
    /\ StartRun(NoEvent)
    /\ UNCHANGED <<session, page, wRepo, wFolders, wFiles, wLimit, wModel, wSys>>

ChangeLimit(l) ==
    /\ pc = "idle"
    /\ page.filters
    /\ l # wLimit
    /\ wLimit' = l
    /\ StartRun(NoEvent)
    /\ UNCHANGED <<session, page, wRepo, wFolders, wFiles, wLangs, wModel, wSys>>

\* ------------------------------------------------------ steps of a run
\* RepoManager (section 4.5): add(url) and remove(url) report success or
\* failure, and a failed operation leaves the registry as it was
AddRepo(reg, u, ok) == IF ok THEN reg \cup {u} ELSE reg
DeleteRepo(reg, u, ok) == IF ok THEN reg \ {u} ELSE reg
CheckIfRepoExists(reg, u) == u \in reg
IsEmpty(reg) == reg = {}

Exists(u) == CheckIfRepoExists(registry, u)

\* lines 105 and 109 with neither check stopping the run
GuardBlocks_Never(reg, url) == FALSE
\* repoManager.isEmpty() or not repoManager.check_if_repo_exists(repo_url)
GuardBlocks(reg, url) == IsEmpty(reg) \/ ~CheckIfRepoExists(reg, url)

CurFiles == RepoFiles(repo_url, repoVer[repo_url])

\* lines 35-51: the add and refresh buttons, then the repository selectbox.
\* add_repo (section 4.5) reports success or failure; a failed add leaves
\* the registry as it was.  A selectbox whose options changed starts again
\* at its first option (the order of get_repo_urls() is not known here).
SidebarRepo ==
    /\ pc = "top"
    /\ \E ok \in BOOLEAN, v \in Versions, first \in Urls \cup {None} :
        LET adding == event.kind = "add"
            cloned == adding /\ ok /\ event.url \notin registry
            reg == IF adding THEN AddRepo(registry, event.url, ok) ELSE registry
            kept == wRepo.opts = reg /\ wRepo.val \in reg
            url == IF reg = {} THEN None ELSE IF kept THEN wRepo.val ELSE first
        IN  /\ adding \/ ok
            /\ cloned \/ v = 0
            /\ IF reg # {} /\ ~kept THEN first \in reg ELSE first = None
            /\ registry' = reg
            /\ repoVer' = IF cloned THEN [repoVer EXCEPT ![event.url] = v] ELSE repoVer
            /\ addCalls' = IF adding
                           THEN Append(addCalls, [url |-> event.url, ok |-> ok, before |-> registry])
                           ELSE addCalls
            /\ shown' = IF adding THEN {AddMessage(ok)}
                        ELSE IF event.kind = "refresh" THEN {"refreshed"} ELSE {}
            /\ repo_url' = url
            /\ wRepo' = [opts |-> reg, val |-> url]
    /\ pc' = "filter"
    /\ UNCHANGED <<messages, client, sessModel, appendCount, page, wFolders, wFiles, wLangs,
                   wLimit, wModel, wSys, event, sidebarExists, selected, selCalls,
                   file_string, call, consumed, text, displayed, runAppends, outcome>>

\* line 52 is False: the four filter locals stay unassigned
SidebarNoRepo ==
    /\ pc = "filter"
    /\ ~Exists(repo_url)
    /\ sidebarExists' = <<FALSE>>
    /\ pc' = "llm"
    /\ UNCHANGED <<session, widgets, page, event, repo_url, selected, selCalls, file_string,
                   call, consumed, text, displayed, shown, addCalls, runAppends, outcome>>

\* lines 53-57 for a repository without README.md: the folder multiselect
\* is drawn, the file multiselect raises on its default
SidebarDefaultMissing ==
    /\ pc = "filter"
    /\ Exists(repo_url)
    /\ DefaultFile \notin FilesOptions(CurFiles)
    /\ sidebarExists' = <<TRUE>>
    /\ wFolders' = [opts |-> FoldersOptions(CurFiles),
                    val |-> Multiselect(wFolders, FoldersOptions(CurFiles), {})]
    /\ EndRun("exc_default")
    /\ UNCHANGED <<session, page, wRepo, wFiles, wLangs, wLimit, wModel, wSys, event, repo_url,
                   selected, selCalls, file_string, call, consumed, text, displayed,
                   shown, addCalls, runAppends>>

\* lines 53-60: the three multiselects and the limit
AssignSelection ==
    LET fo == FoldersOptions(CurFiles)
        po == FilesOptions(CurFiles)
        lo == LanguagesOptions(CurFiles)
    IN  /\ sidebarExists' = <<TRUE>>
        /\ wFolders' = [opts |-> fo, val |-> Multiselect(wFolders, fo, {})]
        /\ wFiles' = [opts |-> po, val |-> Multiselect(wFiles, po, {DefaultFile})]
        /\ wLangs' = [opts |-> lo, val |-> Multiselect(wLangs, lo, {})]
        /\ selected' = << [folders |-> wFolders'.val, files |-> wFiles'.val,
                           languages |-> wLangs'.val, limit |-> wLimit,
                           url |-> repo_url, ver |-> repoVer[repo_url]] >>

CanAssign ==
    /\ pc = "filter"
    /\ Exists(repo_url)
    /\ DefaultFile \in FilesOptions(CurFiles)

\* lines 52-86 with none of the three buttons clicked
SidebarSelect ==
    /\ CanAssign
    /\ event.kind \notin {"count", "update", "delete"}
    /\ AssignSelection
    /\ pc' = "llm"
    /\ UNCHANGED <<session, page, wRepo, wLimit, wModel, wSys, event, repo_url, selCalls,
                   file_string, call, consumed, text, displayed, shown, addCalls,
                   runAppends, outcome>>

\* lines 63-71: Count Tokens
SidebarCount ==
    /\ CanAssign
    /\ event.kind = "count"
    /\ AssignSelection
    /\ selCalls' = Append(selCalls, SelectionArgs(selected'[1]))
    /\ file_string' = GetFilteredFiles(CurFiles, SelectionArgs(selected'[1]))
    /\ shown' = shown \cup {"total_tokens"}
    /\ pc' = "llm"
    /\ UNCHANGED <<session, page, wRepo, wLimit, wModel, wSys, event, repo_url, call,
                   consumed, text, displayed, addCalls, runAppends, outcome>>

\* lines 73-78: Update Repo pulls (the working copy may change), then st.rerun()
SidebarUpdate ==
    /\ CanAssign
    /\ event.kind = "update"
    /\ AssignSelection
    /\ \E ok \in BOOLEAN, v \in Versions :
        /\ ok \/ v = repoVer[repo_url]
        /\ repoVer' = [repoVer EXCEPT ![repo_url] = v]
        /\ shown' = shown \cup {IF ok THEN "update_ok" ELSE "update_err"}
    /\ EndRun("rerun")
    /\ UNCHANGED <<registry, messages, client, sessModel, appendCount, page, wRepo, wLimit,
                   wModel, wSys, event, repo_url, selCalls, file_string, call, consumed,
                   text, displayed, addCalls, runAppends>>

\* lines 80-86 without the st.rerun() that ends them
SidebarDelete_NoRerun ==
    /\ CanAssign
    /\ event.kind = "delete"
    /\ AssignSelection
    /\ \E ok \in BOOLEAN :
        /\ registry' = DeleteRepo(registry, repo_url, ok)
        /\ repoVer' = IF ok THEN [repoVer EXCEPT ![repo_url] = 0] ELSE repoVer
        /\ shown' = shown \cup {IF ok THEN "delete_ok" ELSE "delete_err", "refreshed"}
    /\ pc' = "llm"
    /\ UNCHANGED <<messages, client, sessModel, appendCount, page, wRepo, wLimit, wModel,
                   wSys, event, repo_url, selCalls, file_string, call, consumed, text,
                   displayed, addCalls, runAppends, outcome>>

\* lines 80-86: Delete Repo, refresh_repos(), then st.rerun()
SidebarDelete ==
    /\ CanAssign
    /\ event.kind = "delete"
    /\ AssignSelection
    /\ \E ok \in BOOLEAN :
        /\ registry' = DeleteRepo(registry, repo_url, ok)
        /\ repoVer' = IF ok THEN [repoVer EXCEPT ![repo_url] = 0] ELSE repoVer
        /\ shown' = shown \cup {IF ok THEN "delete_ok" ELSE "delete_err", "refreshed"}
    /\ EndRun("rerun")
    /\ UNCHANGED <<messages, client, sessModel, appendCount, page, wRepo, wLimit, wModel,
                   wSys, event, repo_url, selCalls, file_string, call, consumed, text,
                   displayed, addCalls, runAppends>>

\* st.rerun(): the script starts again at once, with no button clicked
Rerun ==
    /\ pc = "end"
    /\ outcome = "rerun"
    /\ StartRun(NoEvent)
    /\ UNCHANGED <<session, widgets, page>>

\* lines 88-103 when no client has to be created, or its creation succeeds:
\* the LLM settings, Clear Chat, the first client
SidebarLLM ==
    /\ pc = "llm"
    /\ messages' = IF event.kind = "clear" THEN <<>> ELSE messages
    /\ appendCount' = IF event.kind = "clear" THEN 0 ELSE appendCount
    /\ client' = IF client = Absent THEN wModel ELSE client
    /\ pc' = "guard"
    /\ UNCHANGED <<registry, repoVer, sessModel, widgets, page, locals>>

\* lines 88-103 when create_client_for_model raises at line 103 (section 4.3)
SidebarLLMCreateFails ==
    /\ pc = "llm"
    /\ client = Absent
    /\ messages' = IF event.kind = "clear" THEN <<>> ELSE messages
    /\ appendCount' = IF event.kind = "clear" THEN 0 ELSE appendCount
    /\ EndRun("exc_client_init")
    /\ UNCHANGED <<registry, repoVer, client, sessModel, widgets, page, event, repo_url,
                   sidebarExists, selected, selCalls, file_string, call, consumed, text,
                   displayed, shown, addCalls, runAppends>>

\* lines 105-111: st.info and st.stop()
GuardStop ==
    /\ pc = "guard"
    /\ GuardBlocks(registry, repo_url)
    /\ shown' = shown \cup {IF registry = {} THEN "info_empty" ELSE "info_missing"}
    /\ EndRun("stopped")
    /\ UNCHANGED <<session, widgets, page, event, repo_url, sidebarExists, selected, selCalls,
                   file_string, call, consumed, text, displayed, addCalls, runAppends>>

\* lines 105-127: both checks pass, the selection summary reads the four
\* filter locals (a NameError if line 52 left them unassigned), the history
\* is drawn; without a prompt the script ends here
GuardPass ==
    /\ pc = "guard"
    /\ ~GuardBlocks(registry, repo_url)
    /\ IF selected = <<>>
       THEN EndRun("exc_name") /\ UNCHANGED shown
       ELSE /\ shown' = shown \cup {"summary"}
            /\ IF event.kind = "prompt"
               THEN pc' = "turn" /\ UNCHANGED outcome
               ELSE EndRun("done")
    /\ UNCHANGED <<session, widgets, page, event, repo_url, sidebarExists, selected, selCalls,
                   file_string, call, consumed, text, displayed, addCalls, runAppends>>

\* lines 129-141 when create_client_for_model raises at line 140, with lines
\* 140 and 141 in the other order
TurnBeginCreateFails_RecordFirst ==
    /\ pc = "turn"
    /\ sessModel # wModel
    /\ messages' = AppendMessage(messages, "user", event.prompt)
    /\ appendCount' = appendCount + 1
    /\ runAppends' = runAppends + 1
    /\ sessModel' = wModel
    /\ EndRun("exc_client_switch")
    /\ UNCHANGED <<registry, repoVer, client, widgets, page, event, repo_url,
                   sidebarExists, selected, selCalls, file_string, call, consumed, text,
                   displayed, shown, addCalls>>

\* lines 129-141: the user message is appended; a changed model gets a new
\* client, and only then is recorded as the selected model
TurnBegin ==
    /\ pc = "turn"
    /\ messages' = AppendMessage(messages, "user", event.prompt)
    /\ appendCount' = appendCount + 1
    /\ runAppends' = runAppends + 1
    /\ client' = IF sessModel # wModel THEN wModel ELSE client
    /\ sessModel' = wModel
    /\ pc' = "call"
    /\ UNCHANGED <<registry, repoVer, widgets, page, event, repo_url, sidebarExists, selected,
                   selCalls, file_string, call, consumed, text, displayed, shown,
                   addCalls, outcome>>

\* lines 129-141 when create_client_for_model raises at line 140
TurnBeginCreateFails ==
    /\ pc = "turn"
    /\ sessModel # wModel
    /\ messages' = AppendMessage(messages, "user", event.prompt)
    /\ appendCount' = appendCount + 1
    /\ runAppends' = runAppends + 1
    /\ EndRun("exc_client_switch")
    /\ UNCHANGED <<registry, repoVer, client, sessModel, widgets, page, event, repo_url,
                   sidebarExists, selected, selCalls, file_string, call, consumed, text,
                   displayed, shown, addCalls>>

\* lines 143-177: content selection, the message list, its token total, the call
TurnCall ==
    /\ pc = "call"
    /\ selCalls' = Append(selCalls, SelectionArgs(selected[1]))
    /\ file_string' = GetFilteredFiles(CurFiles, SelectionArgs(selected[1]))
    /\ LET msgs == BuildMessages(wSys, file_string', messages)
       IN  call' = << [messages |-> msgs, model |-> wModel, clientFor |-> client,
                       counted |-> msgs, total_tokens |-> NumMessages(msgs)] >>
    /\ shown' = shown \cup {"sending", "total_tokens"}
    /\ pc' = "stream"
    /\ UNCHANGED <<session, widgets, page, event, repo_url, sidebarExists, selected, consumed,
                   text, displayed, addCalls, runAppends, outcome>>

\* lines 179-181: one more chunk of the completion
StreamChunk(inc) ==
    /\ pc = "stream"
    /\ Len(consumed) < MaxStream
    /\ consumed' = Append(consumed, inc)
    /\ text' = ProcessToken(text, inc)
    /\ displayed' = text'
    /\ UNCHANGED <<session, widgets, page, event, repo_url, sidebarExists, selected, selCalls,
                   file_string, call, shown, addCalls, runAppends, outcome, pc>>

\* an exception in the loop, handled by appending what was received so far
StreamAbort_KeepsPartial ==
    /\ pc = "stream"
    /\ messages' = AppendMessage(messages, "assistant", text)
    /\ appendCount' = appendCount + 1
    /\ runAppends' = runAppends + 1
    /\ EndRun("exc_stream")
    /\ UNCHANGED <<registry, repoVer, client, sessModel, widgets, page, event, repo_url,
                   sidebarExists, selected, selCalls, file_string, call, consumed, text,
                   displayed, shown, addCalls>>

\* lines 175-181: client.chat, the iterator or process_token raises (a
\* service error, a chunk whose content is None): line 183 is not reached
StreamAbort ==
    /\ pc = "stream"
    /\ EndRun("exc_stream")
    /\ UNCHANGED <<session, widgets, page, event, repo_url, sidebarExists, selected, selCalls,
                   file_string, call, consumed, text, displayed, shown, addCalls,
                   runAppends>>

\* lines 183-185: the stream is exhausted, the assistant message is appended
StreamEnd ==
    /\ pc = "stream"
    /\ messages' = AppendMessage(messages, "assistant", text)
    /\ appendCount' = appendCount + 1
    /\ runAppends' = runAppends + 1
    /\ EndRun("done")
    /\ UNCHANGED <<registry, repoVer, client, sessModel, widgets, page, event, repo_url,
                   sidebarExists, selected, selCalls, file_string, call, consumed, text,
                   displayed, shown, addCalls>>

\* the run is over: the page stays, the script's locals are gone
RunEnd ==
    /\ pc = "end"
    /\ outcome # "rerun"
    /\ pc' = "idle"
    /\ page' = [folders |-> sidebarExists = <<TRUE>>,
                 filters |-> selected # <<>>,
                 llm |-> outcome # "exc_default",
                 chat |-> "summary" \in shown]
    /\ ResetLocals(NoEvent)
    /\ UNCHANGED <<session, widgets>>

\* ------------------------------------------------------ specifications
\* Every specification runs the same script; they differ in which of the
\* page's controls the user touches and in the texts typed and streamed.

\* the steps every run can take
CommonSteps ==
    \/ SidebarRepo
    \/ SidebarNoRepo
    \/ SidebarDefaultMissing
    \/ SidebarSelect
    \/ SidebarLLM
    \/ SidebarLLMCreateFails
    \/ GuardStop
    \/ GuardPass
    \/ TurnBegin
    \/ TurnCall
    \/ StreamAbort
    \/ StreamEnd
    \/ RunEnd

\* Chatting: prompts, Clear Chat, the model, the system prompt, the
\* repository selectbox, over every registry the session can start with.
NextChat ==
    \/ CommonSteps
    \/ TurnBeginCreateFails
    \/ \E inc \in Increments : StreamChunk(inc)
    \/ ClickClear
    \/ \E p \in Prompts : SubmitPrompt(p)
    \/ \E u \in Urls : SelectRepo(u)
    \/ \E m \in MODELS : SelectModel(m)
    \/ \E s \in SystemPrompts : EditSystemPrompt(s)

SpecChat == Init /\ [][NextChat]_vars

\* Managing repositories: every repository button, Count Tokens, the
\* selectboxes, Clear Chat and chat turns whose completion streams "a"s.
NextRepo ==
    \/ CommonSteps
    \/ SidebarCount
    \/ SidebarUpdate
    \/ SidebarDelete
    \/ Rerun
    \/ TurnBeginCreateFails
    \/ \E inc \in {<<"a">>} : StreamChunk(inc)
    \/ \E u \in Urls : ClickAdd(u)
    \/ ClickRefresh
    \/ ClickCount
    \/ ClickUpdate
    \/ ClickDelete
    \/ ClickClear
    \/ \E p \in Prompts : SubmitPrompt(p)
    \/ \E u \in Urls : SelectRepo(u)
    \/ \E m \in MODELS : SelectModel(m)

SpecRepo == Init /\ [][NextRepo]_vars

\* Filtering: the three multiselects, the limit, Count Tokens, Update Repo,
\* the repository selectbox, Clear Chat and chat turns with one prompt.
NextFilter ==
    \/ CommonSteps
    \/ SidebarCount
    \/ SidebarUpdate
    \/ Rerun
    \/ \E inc \in {<<"a">>} : StreamChunk(inc)
    \/ ClickCount
    \/ ClickUpdate
    \/ ClickClear
    \/ \E p \in {<<"p1">>} : SubmitPrompt(p)
    \/ \E u \in Urls : SelectRepo(u)
    \/ \E S \in SUBSET wFolders.opts : ChangeFolders(S)
    \/ \E S \in SUBSET wFiles.opts : ChangeFiles(S)
    \/ \E S \in SUBSET wLangs.opts : ChangeLanguages(S)
    \/ \E l \in LimitValues : ChangeLimit(l)

SpecFilter == Init /\ [][NextFilter]_vars

\* ------------------------------------------------------------ claims
\* the history as it was when the message list of the call was built
HistoryAtCall == SubSeq(call[1].messages, 3, Len(call[1].messages))

\* registry empty, or the selected URL not in it
Stale == registry = {} \/ repo_url \notin registry

InfoShown == shown \cap {"info_empty", "info_missing"} # {}

\* a step that leaves the history alone or appends one message to it
KeepsOrAppends ==
    \/ messages' = messages
    \/ /\ Len(messages') = Len(messages) + 1
       /\ SubSeq(messages', 1, Len(messages)) = messages

\* C1: the history holds exactly the messages appended since the session
\* started or since the last Clear Chat, in the order of their appends: its
\* length is the number of those appends, a step other than Clear Chat
\* leaves it alone or adds one message at its end, and the step that
\* handles Clear Chat leaves it empty.
C1_HistoryAppendOnly ==
    /\ [](Len(messages) = appendCount)
    /\ [][IF pc = "llm" /\ event.kind = "clear"
          THEN messages' = <<>>
          ELSE KeepsOrAppends]_vars

\* three appends since the last Clear Chat: an aborted turn, then a whole one
C1_Witness ==
    /\ appendCount = 3
    /\ messages[1].role = "user"
    /\ messages[2].role = "user"
    /\ messages[3].role = "assistant"
    /\ messages[1].content # messages[2].content

C3_StreamInOrder ==
    /\ pc = "stream" => text = Flatten(consumed) /\ displayed = Flatten(consumed)
    /\ (pc = "end" /\ outcome = "done" /\ call # <<>>) =>
           messages = Append(HistoryAtCall,
                             [role |-> "assistant", content |-> Flatten(consumed)])

C3_Witness ==
    /\ pc = "end"
    /\ outcome = "done"
    /\ Len(consumed) = 2
    /\ consumed[1] # consumed[2]

\* C4 as stated: every run in which the registry is empty or the selected
\* URL is unknown ends with the informational message, with no content
\* selection, no append and no model call.
C4_AlwaysInfo ==
    (pc = "end" /\ Stale) =>
        /\ outcome = "stopped"
        /\ InfoShown
        /\ selCalls = <<>> /\ runAppends = 0 /\ call = <<>>

\* C4 amended: while the registry is empty or the selected URL is unknown
\* no content selection, append or model call happens in the run, no run
\* gets past the checks of lines 105-111, and a run that ends there ends
\* with the informational message; the only other ends of such a run are
\* the exception of a failed client creation at line 103 and the
\* st.rerun() of the run that deleted the repository.
C4_GuardedByExistence ==
    /\ Stale => selCalls = <<>> /\ runAppends = 0 /\ call = <<>>
    /\ pc \in {"turn", "call", "stream"} => ~Stale
    /\ (pc = "end" /\ Stale) => outcome \in {"stopped", "exc_client_init", "rerun"}
    /\ (pc = "end" /\ Stale /\ outcome = "rerun") => event.kind = "delete"
    /\ outcome = "stopped" => Stale /\ InfoShown

\* a run stopped on an empty registry after the session had drawn a
\* repository's file options: the repository was deleted in this session
C4_Witness ==
    /\ pc = "end"
    /\ outcome = "stopped"
    /\ registry = {}
    /\ "info_empty" \in shown
    /\ wFiles.opts # {}

\* C5: a run calls add_repo at most once; when it reports failure the page
\* has the error and not the success message and the registry is the one
\* from before the call; when it reports success the page has the success
\* and not the error message.
C5_AddReported ==
    /\ Len(addCalls) <= 1
    /\ \A i \in 1..Len(addCalls) :
        IF addCalls[i].ok
        THEN "add_ok" \in shown /\ "add_err" \notin shown
        ELSE /\ "add_err" \in shown /\ "add_ok" \notin shown
             /\ registry = addCalls[i].before

C5_Witness ==
    /\ pc = "end"
    /\ Len(addCalls) = 1
    /\ ~addCalls[1].ok
    /\ addCalls[1].url \notin registry

\* C6: the folders, files and languages passed to content selection are
\* subsets of the selected repository's folder, file and language options.
C6_SelectionFromOptions ==
    \A i \in 1..Len(selCalls) :
        /\ selCalls[i].folders \subseteq FoldersOptions(CurFiles)
        /\ selCalls[i].files \subseteq FilesOptions(CurFiles)
        /\ selCalls[i].languages \subseteq LanguagesOptions(CurFiles)

\* the preset file selection passed on, next to a folder the user chose
C6_Witness ==
    /\ Len(selCalls) = 1
    /\ selCalls[1].files = {DefaultFile}
    /\ selCalls[1].folders # {}
    /\ repoVer[repo_url] = 1

\* C7: a turn aborted while its completion streams leaves the history as
\* it was when the call was made (the earlier turns and this turn's prompt,
\* no assistant message), and leaves the client and the repository usable.
C7_AbortKeepsSession ==
    (pc = "end" /\ outcome = "exc_stream") =>
        /\ messages = HistoryAtCall
        /\ runAppends = 1
        /\ messages[Len(messages)] = [role |-> "user", content |-> event.prompt]
        /\ client = call[1].clientFor /\ client = sessModel
        /\ repo_url \in registry /\ selected[1].ver = repoVer[repo_url]

\* a turn aborted after its first increment, with an earlier aborted turn
\* and no assistant message in the history
C7_Witness ==
    /\ pc = "end"
    /\ outcome = "exc_stream"
    /\ consumed # <<>>
    /\ Len(messages) = 2

\* C8: the cumulative size of the files included by content selection
\* never exceeds the limit passed to it, and the text returned is made of
\* whole files only.
C8_WithinLimit ==
    \A i \in 1..Len(selCalls) :
        LET a == selCalls[i]
            incl == TakeFiles(CurFiles, a.folders, a.files, a.languages, a.limit, 0)
        IN  i = Len(selCalls) =>
                /\ file_string = RenderFiles(incl)
                /\ SumSizes(incl) <= a.limit

\* C9: the client of every chat call was created for the model passed in
\* the call; the recorded model, once set, is the client's; a turn whose
\* client creation failed made no call and recorded nothing.
C9_ClientMatchesModel ==
    /\ call # <<>> => call[1].clientFor = call[1].model
    /\ sessModel # None => client = sessModel
    /\ (pc = "end" /\ outcome = "exc_client_switch") =>
           call = <<>> /\ sessModel # wModel

\* a failed switch from the first model's client to the second model
C9_Witness ==
    /\ pc = "end"
    /\ outcome = "exc_client_switch"
    /\ sessModel = "m1"
    /\ wModel = "m2"

\* C10: the check of line 52 and the checks of lines 105-111 agree, the
\* selection summary never reads an unassigned local, and whatever uses the
\* filter selection uses one assigned in this run for the selected
\* repository in its current state.
C10_SelectionAssigned ==
    /\ pc = "guard" => sidebarExists = <<repo_url \in registry>>
    /\ outcome # "exc_name"
    /\ ("summary" \in shown \/ selCalls # <<>>) =>
           /\ selected # <<>>
           /\ repo_url \in registry
           /\ selected[1].url = repo_url
           /\ selected[1].ver = repoVer[repo_url]

\* a chat turn on a repository whose working copy was pulled or cloned anew
C10_Witness ==
    /\ pc = "stream"
    /\ Len(selCalls) = 1
    /\ "summary" \in shown
    /\ repoVer[repo_url] = 1

====
